---- MODULE Spec2Model ----
(***************************************************************************)
(* Model of zipdist.Zipdist (src/zipdist/zip.py): an object whose          *)
(* attributes are saved into a directory of manifest and data files, the   *)
(* directory packed into a .tar.gz archive, and the attributes rebuilt     *)
(* from such an archive.                                                   *)
(*                                                                         *)
(* The state is the host object's __dict__, the files of the working       *)
(* directory, and the archives.  Every path is relative to the working     *)
(* directory: a directory is a sequence of components (<<"p","d">> is      *)
(* "p/d"), a file is a directory plus a leaf name <<stem, extension>>.     *)
(***************************************************************************)
EXTENDS Integers, Sequences, FiniteSets, TLC

VARIABLES obj,    \* the host object's attributes (its __dict__)
          files,  \* the files of the working directory: path -> content
          tars,   \* the archives: archive path -> [exists, top, members]
          err,    \* how the last call ended: "ok" or the exception raised
          last,   \* the last call and its resolved arguments
          rt,     \* progress of a save followed by a build of the same paths
          ops     \* number of steps taken

vars == <<obj, files, tars, err, last, rt, ops>>

\* Number of steps of one behaviour.
MaxOps == 4

-----------------------------------------------------------------------------
(* Values *)

\* The attribute names the host assigns; "name" is set by __init__.
Names == {"a", "b"}

\* A name that no manifest holds, for the reload-one lookups.
Stranger == "zz"

\* The keys handed to _reload_simple / _reload_complex: the host's own
\* attributes and a name no manifest holds.
Keys == Names \cup {"name", Stranger}

Absent    == [k |-> "absent", v |-> 0]     \* no such key in the dict
None      == [k |-> "none", v |-> 0]
IntV      == [k |-> "int", v |-> 1]
ListV     == [k |-> "list", v |-> 1]       \* a list of v numbers
NdArray   == [k |-> "ndarray", v |-> 1]    \* a 1-D array of v cells
DataFrame == [k |-> "DataFrame", v |-> 1]

\* What the host assigns to its attributes.
HostValues == {None, IntV, ListV, NdArray, DataFrame}

\* The host values that are JSON literals (a number, a list, null).
JsonLiterals == {None, IntV, ListV}

\* isinstance(v, np.ndarray), isinstance(v, pd.DataFrame)
IsNdarray(v)   == v.k = "ndarray"
IsDataFrame(v) == v.k = "DataFrame"

\* The save directories used: "d" and "p/d".
Dirs == {<<"d">>, <<"p", "d">>}
NoPath == <<>>        \* the argument None / the attribute not set

\* os.path.basename of a directory path without trailing separator
Basename(d) == d[Len(d)]

\* f"{dest}.tar.gz": the archive path is identified by the path it extends.
DefaultTar(d) == d
TarPaths == {DefaultTar(d) : d \in Dirs}

\* os.path.join(dest, leaf)
Join(d, leaf) == [dir |-> d, leaf |-> leaf]

SimpleJson  == <<"simple_attributes", "json">>
ComplexJson == <<"complex_attributes", "json">>

NoFiles == [z \in {} |-> 0]
NoTar == [exists |-> FALSE, top |-> "", members |-> NoFiles]

\* The files directly inside directory d.
FilesIn(fs, d) == {p \in DOMAIN fs : p.dir = d}

-----------------------------------------------------------------------------
(* The manifests *)

\* The complex manifest is a dict in insertion order: a sequence of entries,
\* one per key.
EmptyManifest == <<>>
Unset == [set |-> FALSE, m |-> EmptyManifest]

ManifestNames(m) == {m[i].name : i \in 1..Len(m)}
Lookup(m, k) == m[CHOOSE i \in 1..Len(m) : m[i].name = k]

\* d[k] = e on a dict: replaces the value of an existing key in place,
\* appends a new key.
DictSet(m, e) ==
    IF e.name \in ManifestNames(m)
    THEN [i \in 1..Len(m) |-> IF m[i].name = e.name THEN e ELSE m[i]]
    ELSE Append(m, e)

\* The simple manifest document: one field per key of __dict__.
EmptyDoc == [name |-> "", user |-> [n \in Names |-> Absent], dest |-> NoPath,
             dest_tar |-> NoPath, cattr |-> Unset, sattr |-> "absent"]
UnsetDoc == [set |-> FALSE, m |-> EmptyDoc]

\* A hypothetical encoder that writes an array as the number of its cells.
JsonValueOfArrays(v) ==
    CASE IsNdarray(v) -> [k |-> "int", v |-> v.v]
      [] IsDataFrame(v) -> None
      [] OTHER -> v

\* json.dump(..., default = lambda x : None) of one value, as json.load
\* reads it back: a value json cannot serialize is written as null.
JsonValue(v) ==
    IF IsNdarray(v) \/ IsDataFrame(v) THEN None ELSE v

\* json.dump(self.__dict__, fp, default = lambda x : None)
JsonDump(o) ==
    [name |-> o.name,
     user |-> [n \in Names |-> JsonValue(o.user[n])],
     dest |-> o.dest,
     dest_tar |-> o.dest_tar,
     cattr |-> o.cattr,
     sattr |-> IF o.sattr.set THEN "empty" ELSE "absent"]

-----------------------------------------------------------------------------
(* The codecs *)

\* ndarray.tofile(file, sep = ","): the cells as one flat delimited list.
ToFile(v) == [fmt |-> "flat", v |-> v.v]
\* DataFrame.to_csv(f, sep = ",", index = False)
ToCsv(v) == [fmt |-> "table", v |-> v.v]
\* np.genfromtxt(fn, delimiter = ","): a 1-D array of the cells.
NdarrayFromCsv(c) == [k |-> "ndarray", v |-> c.v]
\* pd.read_csv(fn, sep = ",")
DataframeFromCsv(c) == [k |-> "DataFrame", v |-> c.v]

\* The keys of the decoder dict of _reload_complex.
Registered == {"np.ndarray", "pd.DataFrame"}
Decode(filetype, c) ==
    IF filetype = "np.ndarray" THEN NdarrayFromCsv(c) ELSE DataframeFromCsv(c)

NumpyEntry(dest, k) ==
    [name |-> k, filename |-> Join(dest, <<k, "cs">>),
     filetype |-> "np.ndarray", fileformat |-> "csv"]
PandasEntry(dest, k) ==
    [name |-> k, filename |-> Join(dest, <<k, "csv">>),
     filetype |-> "pd.DataFrame", fileformat |-> "csv"]

-----------------------------------------------------------------------------
(* Reload *)

\* The result of a call: the object it leaves and how it ended.
Done(o) == [o |-> o, err |-> "ok"]
Raised(o, e) == [o |-> o, err |-> e]

\* A hypothetical setattr that adds a number to the number already there.
SetAttrAdding(cur, v) ==
    IF cur.k = "int" /\ v.k = "int" THEN [k |-> "int", v |-> cur.v + v.v] ELSE v

\* setattr(self, k, v) on an attribute whose value was cur: the new value.
SetAttrValue(cur, v) == v

\* _reload_simple_all without the test for None.
ReloadSimpleAllWithNulls(o) ==
    IF ~o.sattr.set THEN Raised(o, "AttributeError")
    ELSE LET doc == o.sattr.m IN
         Done([o EXCEPT
               !.name = IF doc.name = "" THEN @ ELSE doc.name,
               !.user = [n \in Names |->
                           IF doc.user[n] = Absent THEN @[n]
                           ELSE SetAttrValue(@[n], doc.user[n])],
               !.dest = IF doc.dest = NoPath THEN @ ELSE doc.dest,
               !.dest_tar = IF doc.dest_tar = NoPath THEN @ ELSE doc.dest_tar])

\* _reload_simple_all: every key of the simple manifest but the two reserved
\* ones and those whose value is None is set on the object.
ReloadSimpleAll(o) ==
    IF ~o.sattr.set THEN Raised(o, "AttributeError")
    ELSE LET doc == o.sattr.m IN
         Done([o EXCEPT
               !.name = IF doc.name = "" THEN @ ELSE doc.name,
               !.user = [n \in Names |->
                           IF doc.user[n] \in {Absent, None} THEN @[n]
                           ELSE SetAttrValue(@[n], doc.user[n])],
               !.dest = IF doc.dest = NoPath THEN @ ELSE doc.dest,
               !.dest_tar = IF doc.dest_tar = NoPath THEN @ ELSE doc.dest_tar])

\* The body of _reload_complex without the except clause: an unregistered
\* filetype raises.
ReloadEntryRaising(o, fs, e) ==
    IF e.filetype \notin Registered THEN Raised(o, "KeyError")
    ELSE IF e.filename \notin DOMAIN fs THEN Raised(o, "OSError")
    ELSE Done([o EXCEPT !.user[e.name] = Decode(e.filetype, fs[e.filename])])

\* The body of _reload_complex for the manifest entry e (lines 215-232): the
\* KeyError of an unregistered filetype is caught, the error of a missing
\* file is not.
ReloadEntry(o, fs, e) ==
    IF e.filetype \notin Registered THEN Done(o)
    ELSE IF e.filename \notin DOMAIN fs THEN Raised(o, "OSError")
    ELSE Done([o EXCEPT !.user[e.name] = Decode(e.filetype, fs[e.filename])])

\* _reload_complex(k): the lookup of k is outside the try block.
ReloadComplex(o, fs, k) ==
    IF ~o.cattr.set THEN Raised(o, "AttributeError")
    ELSE IF k \notin ManifestNames(o.cattr.m) THEN Raised(o, "KeyError")
    ELSE ReloadEntry(o, fs, Lookup(o.cattr.m, k))

\* The loop of _reload_complex_all from entry i on, over the manifest m the
\* loop started with.
RECURSIVE ReloadComplexFrom(_, _, _, _)
ReloadComplexFrom(o, fs, m, i) ==
    IF i > Len(m) THEN Done(o)
    ELSE LET r == ReloadEntry(o, fs, m[i]) IN
         IF r.err # "ok" THEN r ELSE ReloadComplexFrom(r.o, fs, m, i + 1)

ReloadComplexAll(o, fs) ==
    IF ~o.cattr.set THEN Raised(o, "AttributeError")
    ELSE ReloadComplexFrom(o, fs, o.cattr.m, 1)

\* _reload
Reload(o, fs) ==
    LET r == ReloadSimpleAll(o) IN
    IF r.err # "ok" THEN r ELSE ReloadComplexAll(r.o, fs)

\* Whether the simple manifest document holds key k (k in Keys), and the
\* object after setattr(self, k, doc[k]).
DocHas(doc, k) ==
    CASE k \in Names -> doc.user[k] # Absent
      [] k = "name" -> doc.name # ""
      [] OTHER -> FALSE

SetFromDoc(o, doc, k) ==
    IF k \in Names THEN [o EXCEPT !.user[k] = SetAttrValue(@, doc.user[k])]
    ELSE [o EXCEPT !.name = doc.name]

\* _reload_simple(k): the KeyError of a missing key is caught.
ReloadSimple(o, k) ==
    IF ~o.sattr.set THEN Raised(o, "AttributeError")
    ELSE IF ~DocHas(o.sattr.m, k) THEN Done(o)
    ELSE Done(SetFromDoc(o, o.sattr.m, k))

-----------------------------------------------------------------------------
(* Save and build *)

\* The orders in which the attributes of S can stand in __dict__.
Orders(S) ==
    {q \in [1..Cardinality(S) -> S] : \A i, j \in DOMAIN q : i # j => q[i] # q[j]}

\* dest and dest_tar as passed or None (lines 90-93, 134-137).
ResolveDest(o, dIn) == IF dIn = NoPath THEN <<o.name>> ELSE dIn
ResolveTar(dest, tIn) == IF tIn = NoPath THEN DefaultTar(dest) ELSE tIn

\* A save that keeps the complex manifest the object holds.
KeptManifest(o) ==
    IF o.cattr.set THEN o.cattr ELSE [set |-> TRUE, m |-> EmptyManifest]

\* self._complex_attributes = dict() (lines 94 and 132)
FreshManifest(o) == [set |-> TRUE, m |-> EmptyManifest]

\* self._simple_attributes = dict() (lines 95 and 133)
FreshDoc == [set |-> TRUE, m |-> EmptyDoc]

\* _make_dest_directory: creates dest when it is no directory; whatever the
\* directory holds stays.
MakeDestDirectory(fs, dest) == fs

\* The loop of _save_numpy_attributes over the ndarray attributes, in their
\* __dict__ order q, from position i: st is the files and the manifest.
RECURSIVE SaveNumpyFrom(_, _, _, _, _)
SaveNumpyFrom(st, o, dest, q, i) ==
    IF i > Len(q) THEN st
    ELSE LET e == NumpyEntry(dest, q[i]) IN
         SaveNumpyFrom([f |-> (e.filename :> ToFile(o.user[q[i]])) @@ st.f,
                        m |-> DictSet(st.m, e)], o, dest, q, i + 1)

\* The loop of _save_pandas_attributes.
RECURSIVE SavePandasFrom(_, _, _, _, _)
SavePandasFrom(st, o, dest, q, i) ==
    IF i > Len(q) THEN st
    ELSE LET e == PandasEntry(dest, q[i]) IN
         SavePandasFrom([f |-> (e.filename :> ToCsv(o.user[q[i]])) @@ st.f,
                         m |-> DictSet(st.m, e)], o, dest, q, i + 1)

\* _save_as_tar_gz: tar.add(dest, arcname = os.path.basename(dest)) packs
\* every file of the directory under the directory's base name.
SaveAsTarGz(fs, dest) ==
    [exists |-> TRUE, top |-> Basename(dest),
     members |-> [l \in {p.leaf : p \in FilesIn(fs, dest)} |-> fs[Join(dest, l)]]]

\* _extract_tarfile: tar.extractall() writes the members below the working
\* directory, over the files already there.
ExtractTarfile(fs, tar) ==
    [p \in {Join(<<tar.top>>, l) : l \in DOMAIN tar.members} |-> tar.members[p.leaf]]
    @@ fs

\* _save with the ndarray attributes in order nq and the DataFrame
\* attributes in order pq: the object and the files it leaves.
SaveResult(o, fs, dest, nq, pq) ==
    LET o1 == [o EXCEPT !.cattr = FreshManifest(o), !.sattr = FreshDoc]
        f1 == MakeDestDirectory(fs, dest)
        s1 == SaveNumpyFrom([f |-> f1, m |-> o1.cattr.m], o1, dest, nq, 1)
        s2 == SavePandasFrom(s1, o1, dest, pq, 1)
        o2 == [o1 EXCEPT !.cattr.m = s2.m]
        f3 == (Join(dest, ComplexJson) :> o2.cattr.m) @@ s2.f
        f4 == (Join(dest, SimpleJson) :> JsonDump(o2)) @@ f3
    IN  [o |-> o2, f |-> f4]

\* _build: the object, the files and the outcome.
BuildResult(o, fs, ts, dest, tar, reload) ==
    LET o1 == [o EXCEPT !.cattr = FreshManifest(o), !.sattr = FreshDoc,
                        !.dest = dest, !.dest_tar = tar]
        f1 == ExtractTarfile(fs, ts[tar])
        o2 == [o1 EXCEPT !.cattr.m = f1[Join(dest, ComplexJson)]]
        o3 == [o2 EXCEPT !.sattr.m = f1[Join(dest, SimpleJson)]]
    IN  IF ~ts[tar].exists THEN [r |-> Raised(o1, "FileNotFoundError"), f |-> fs]
        ELSE IF Join(dest, ComplexJson) \notin DOMAIN f1
             THEN [r |-> Raised(o1, "AssertionError"), f |-> f1]
        ELSE IF Join(dest, SimpleJson) \notin DOMAIN f1
             THEN [r |-> Raised(o2, "AssertionError"), f |-> f1]
        ELSE IF reload THEN [r |-> Reload(o3, f1), f |-> f1]
        ELSE [r |-> Done(o3), f |-> f1]

-----------------------------------------------------------------------------
(* The state machine *)

\* Zipdist(name): a new instance holds its name only.
Fresh == [name |-> "d", user |-> [n \in Names |-> Absent], dest |-> NoPath,
          dest_tar |-> NoPath, cattr |-> Unset, sattr |-> UnsetDoc]

\* Whether the build before this call got as far as its reload.
Reloaded == last.op = "build" /\ last.reload
            /\ err \notin {"FileNotFoundError", "AssertionError"}

\* Whether this call repeats the reload the call before it made: a reload
\* after a reload or after a build that reloaded, a build after a build of
\* the same paths.
Again(op, dest, tar, reload) ==
    CASE op = "reload" -> last.op = "reload" \/ Reloaded
      [] op = "build" -> /\ last.op = "build" /\ last.dest = dest
                         /\ last.tar = tar /\ last.reload = reload
      [] OTHER -> FALSE

Call(op, dest, tar, k, reload) ==
    [op |-> op, dest |-> dest, tar |-> tar, k |-> k, reload |-> reload,
     again |-> Again(op, dest, tar, reload)]
Plain(op) == Call(op, NoPath, NoPath, "", FALSE)

NoRt == [stage |-> "none", dest |-> NoPath, tar |-> NoPath,
         snap |-> [n \in Names |-> Absent]]

Init ==
    /\ obj = Fresh
    /\ files = NoFiles
    /\ tars = [t \in TarPaths |-> NoTar]
    /\ err = "ok"
    /\ last = [op |-> "init", dest |-> NoPath, tar |-> NoPath, k |-> "",
               reload |-> FALSE, again |-> FALSE]
    /\ rt = NoRt
    /\ ops = 0

Step == ops < MaxOps /\ ops' = ops + 1

\* The host assigns (or deletes) attributes of its own: u is its attributes
\* after the assignments.
Assign(u) ==
    /\ Step
    /\ u # obj.user
    /\ obj' = [obj EXCEPT !.user = u]
    /\ err' = "ok"
    /\ last' = Plain("assign")
    /\ rt' = NoRt
    /\ UNCHANGED <<files, tars>>

\* The host makes a new instance.
NewInstance ==
    /\ Step
    /\ obj' = Fresh
    /\ err' = "ok"
    /\ last' = Plain("new")
    /\ rt' = IF rt.stage = "saved" THEN [rt EXCEPT !.stage = "fresh"] ELSE NoRt
    /\ UNCHANGED <<files, tars>>

Save(dIn, tIn) ==
    /\ Step
    /\ \E nq \in Orders({n \in Names : IsNdarray(obj.user[n])}),
          pq \in Orders({n \in Names : IsDataFrame(obj.user[n])}) :
         LET dest == ResolveDest(obj, dIn)
             tar == ResolveTar(dest, tIn)
             s == SaveResult(obj, files, dest, nq, pq)
         IN  /\ obj' = s.o
             /\ files' = s.f
             /\ tars' = [tars EXCEPT ![tar] = SaveAsTarGz(s.f, dest)]
             /\ err' = "ok"
             /\ last' = Call("save", dest, tar, "", FALSE)
             /\ rt' = [stage |-> "saved", dest |-> dest, tar |-> tar,
                       snap |-> obj.user]

Build(dIn, tIn, reload) ==
    /\ Step
    /\ LET dest == ResolveDest(obj, dIn)
           tar == ResolveTar(dest, tIn)
           b == BuildResult(obj, files, tars, dest, tar, reload)
       IN  /\ obj' = b.r.o
           /\ files' = b.f
           /\ err' = b.r.err
           /\ last' = Call("build", dest, tar, "", reload)
           /\ rt' = IF rt.stage \in {"saved", "fresh"} /\ rt.dest = dest
                       /\ rt.tar = tar /\ reload
                    THEN [rt EXCEPT !.stage =
                             IF rt.stage = "fresh" THEN "builtfresh" ELSE "built"]
                    ELSE NoRt
    /\ UNCHANGED tars

Returns(r, op, k) ==
    /\ obj' = r.o
    /\ err' = r.err
    /\ last' = Call(op, NoPath, NoPath, k, FALSE)
    /\ rt' = NoRt
    /\ UNCHANGED <<files, tars>>

DoReload == Step /\ Returns(Reload(obj, files), "reload", "")
DoReloadSimpleAll == Step /\ Returns(ReloadSimpleAll(obj), "reload_simple_all", "")
DoReloadComplexAll ==
    Step /\ Returns(ReloadComplexAll(obj, files), "reload_complex_all", "")
DoReloadSimple(k) == Step /\ Returns(ReloadSimple(obj, k), "reload_simple", k)
DoReloadComplex(k) ==
    Step /\ Returns(ReloadComplex(obj, files, k), "reload_complex", k)

Outside(op) ==
    /\ err' = "ok"
    /\ last' = Plain(op)
    /\ rt' = NoRt
    /\ UNCHANGED obj

\* An archive that came without one of its members (made elsewhere, or cut).
DropMember(t, l) ==
    /\ Step
    /\ tars[t].exists /\ l \in DOMAIN tars[t].members
    /\ tars' = [tars EXCEPT ![t].members =
                   [x \in DOMAIN @ \ {l} |-> @[x]]]
    /\ Outside("drop")
    /\ UNCHANGED files

\* An archive whose complex manifest names, for entry i, a type this version
\* has no decoder for.
ForeignType(t, i) ==
    /\ Step
    /\ tars[t].exists /\ ComplexJson \in DOMAIN tars[t].members
    /\ i \in 1..Len(tars[t].members[ComplexJson])
    /\ tars[t].members[ComplexJson][i].filetype \in Registered
    /\ tars' = [tars EXCEPT ![t].members[ComplexJson][i].filetype = "other"]
    /\ Outside("foreign")
    /\ UNCHANGED files

\* The save directory d is removed from the working directory.
RemoveDir(d) ==
    /\ Step
    /\ FilesIn(files, d) # {}
    /\ files' = [p \in DOMAIN files \ FilesIn(files, d) |-> files[p]]
    /\ Outside("rmdir")
    /\ UNCHANGED tars

\* The dest_tar arguments passed along with dest: None, or the archive that
\* stands beside the directory.
TarArgs(o, dIn) == {NoPath, DefaultTar(ResolveDest(o, dIn))}

Next ==
    \/ \E u \in [Names -> HostValues \cup {Absent}] : Assign(u)
    \/ NewInstance
    \/ \E d \in Dirs \cup {NoPath} : \E t \in TarArgs(obj, d) : Save(d, t)
    \/ \E d \in Dirs \cup {NoPath} : \E t \in TarArgs(obj, d), r \in BOOLEAN :
          Build(d, t, r)
    \/ DoReload
    \/ DoReloadSimpleAll
    \/ DoReloadComplexAll
    \/ \E k \in Keys : DoReloadSimple(k)
    \/ \E k \in Keys : DoReloadComplex(k)
    \/ \E t \in TarPaths, l \in {SimpleJson, ComplexJson} : DropMember(t, l)
    \/ \E t \in TarPaths, i \in 1..Cardinality(Names) : ForeignType(t, i)
    \/ \E d \in Dirs : RemoveDir(d)

Spec == Init /\ [][Next]_vars

-----------------------------------------------------------------------------
(* Properties *)

Complex(v) == IsNdarray(v) \/ IsDataFrame(v)
ComplexNames(u) == {n \in Names : Complex(u[n])}
Present(u) == {n \in Names : u[n] # Absent}

\* The attributes of the object that was saved were all JSON literals, and a
\* new instance has been built from the archive of that save.
RoundTripOfLiterals ==
    /\ rt.stage = "builtfresh"
    /\ \A n \in Present(rt.snap) : rt.snap[n] \in JsonLiterals

\* C1 as stated: after save and a build on a new instance, the built object
\* has the attribute names of the saved one and an equal value for each.
C1_RoundTripEqual ==
    RoundTripOfLiterals => err = "ok" /\ obj.user = rt.snap /\ obj.name = Fresh.name

\* C1 as amended: the built object has every attribute of the saved one whose
\* value is not null, with an equal value; an attribute whose value was null
\* is not set on it.
C1_RoundTripNonNull ==
    RoundTripOfLiterals =>
        /\ err = "ok"
        /\ obj.name = Fresh.name
        /\ \A n \in Names :
              obj.user[n] = IF rt.snap[n] = None THEN Absent ELSE rt.snap[n]

C1_Witness ==
    /\ RoundTripOfLiterals
    /\ \E n, n2 \in Names : /\ rt.snap[n] = IntV /\ obj.user[n] = IntV
                            /\ rt.snap[n2] = None /\ obj.user[n2] = Absent

\* The manifests the last save wrote.
SavedManifest == files[Join(last.dest, ComplexJson)]
SavedDoc == files[Join(last.dest, SimpleJson)]

\* C2: the complex manifest a save writes, in the directory and in the
\* archive, has exactly one entry for each attribute that is an array or a
\* data frame at that save, with the type tag of its type, and no other
\* entry, whatever was saved or built before.
C2_ManifestFresh ==
    last.op = "save" =>
        /\ ManifestNames(SavedManifest) = ComplexNames(obj.user)
        /\ Len(SavedManifest) = Cardinality(ComplexNames(obj.user))
        /\ \A i \in 1..Len(SavedManifest) :
              SavedManifest[i].filetype =
                 IF IsNdarray(obj.user[SavedManifest[i].name])
                 THEN "np.ndarray" ELSE "pd.DataFrame"
        /\ tars[last.tar].members[ComplexJson] = SavedManifest
        /\ obj.cattr.m = SavedManifest

\* A save into a directory that still holds the encoded file of an attribute
\* that is no longer complex.
C2_Witness ==
    /\ last.op = "save"
    /\ \E n, n2 \in Names :
          /\ Join(last.dest, <<n, "cs">>) \in DOMAIN files
          /\ ~Complex(obj.user[n])
          /\ n \notin ManifestNames(SavedManifest)
          /\ n2 \in ManifestNames(SavedManifest)

\* C3 as stated: the archive a save writes holds the two manifests and one
\* encoded file per current complex attribute, and nothing else.
C3_ArchiveExact ==
    last.op = "save" =>
        DOMAIN tars[last.tar].members =
            {SimpleJson, ComplexJson}
            \cup {SavedManifest[i].filename.leaf : i \in 1..Len(SavedManifest)}

LacksManifest(tar) ==
    tar.exists /\ ~({SimpleJson, ComplexJson} \subseteq DOMAIN tar.members)

\* C4 as stated: a build against an archive that lacks one of the two
\* manifests fails, and sets none of the host's attributes.
C4_MissingManifestFails ==
    [][(last'.op = "build" /\ LacksManifest(tars[last'.tar]))
         => (err' # "ok" /\ obj'.user = obj.user)]_vars

\* The attributes as the complex phase of the step found them: after the
\* simple phase, when the step is a build.
BeforeComplexPhase ==
    IF last'.op = "build"
    THEN ReloadSimpleAll([obj' EXCEPT !.user = obj.user]).o.user
    ELSE obj.user

\* C5: when the complex manifest is reloaded (by _reload_complex_all, or by
\* a build that reloads), an entry with an unregistered type tag raises
\* nothing and leaves the attribute of its name as it was, and when the
\* files of the registered entries are there, every registered entry is
\* decoded and assigned, wherever the unregistered entry stands.
C5_UnknownTypeSkipped ==
    [][((last'.op = "reload_complex_all" \/ Reloaded') /\ obj'.cattr.set) =>
         LET m == obj'.cattr.m
             known == {i \in 1..Len(m) : m[i].filetype \in Registered}
         IN  /\ err' # "KeyError"
             /\ \A i \in 1..Len(m) \ known :
                   obj'.user[m[i].name] = BeforeComplexPhase[m[i].name]
             /\ (\A i \in known : m[i].filename \in DOMAIN files') =>
                   /\ err' = "ok"
                   /\ \A i \in known :
                         obj'.user[m[i].name] =
                            Decode(m[i].filetype, files'[m[i].filename])]_vars

\* A reload over a manifest whose first entry has an unregistered type and
\* whose second entry was decoded.
C5_Witness ==
    /\ Reloaded /\ err = "ok" /\ Len(obj.cattr.m) = 2
    /\ obj.cattr.m[1].filetype \notin Registered
    /\ obj.cattr.m[2].filetype \in Registered
    /\ obj.user[obj.cattr.m[2].name] =
          Decode(obj.cattr.m[2].filetype, files[obj.cattr.m[2].filename])

\* C6 as stated: _reload_simple(k) and _reload_complex(k) with a k the
\* loaded manifest does not hold return without an error and change nothing.
C6_LookupMissIsLocal ==
    [][(\/ /\ last'.op = "reload_simple" /\ obj.sattr.set
           /\ ~DocHas(obj.sattr.m, last'.k)
        \/ /\ last'.op = "reload_complex" /\ obj.cattr.set
           /\ last'.k \notin ManifestNames(obj.cattr.m))
         => (err' = "ok" /\ obj' = obj)]_vars

\* C7 as stated: no reload sets an attribute to the null the simple manifest
\* holds for it.
C7_NullNeverAssigned ==
    [][(last'.op \in {"reload", "reload_simple_all", "reload_simple"}
        /\ obj.sattr.set)
         => \A n \in Names :
               (obj.sattr.m.user[n] = None /\ obj'.user[n] = None)
                  => obj.user[n] = None]_vars

\* C8: a reload that follows a reload (or a build that reloaded), and a build
\* that follows a build of the same paths, with no change of the files in
\* between, ends as the call before it did and leaves the object and the
\* files as they were.
C8_ReloadIdempotent ==
    [][last'.again => (obj' = obj /\ err' = err /\ files' = files)]_vars

\* A second reload of a number taken from the simple manifest.
C8_Witness ==
    /\ last.op = "reload" /\ last.again /\ err = "ok"
    /\ \E n \in Names : obj.sattr.m.user[n] = IntV /\ obj.user[n] = IntV

\* The files the last build extracted from its archive.
Extracted ==
    {Join(<<tars[rt.tar].top>>, l) : l \in DOMAIN tars[rt.tar].members}

\* C9 as stated: after save(dest, dest_tar) and build(dest, dest_tar), the
\* manifests and the encoded files the build reads are files extracted from
\* the archive.
C9_SelfContained ==
    (rt.stage \in {"built", "builtfresh"} /\ err = "ok") =>
        /\ Join(rt.dest, ComplexJson) \in Extracted
        /\ Join(rt.dest, SimpleJson) \in Extracted
        /\ \A i \in 1..Len(obj.cattr.m) :
              obj.cattr.m[i].filetype \in Registered =>
                 obj.cattr.m[i].filename \in Extracted

====
